---- MODULE Spec2Model ----
(***************************************************************************)
(* Model of the natural-language date/time parser of smart-todo-cli        *)
(* (src/src/date_parser.c).                                                *)
(*                                                                         *)
(* A C string is a sequence of one-character strings; reading at the       *)
(* position after the last character gives the terminating NUL.  A time_t  *)
(* is a number of seconds since 1970-01-01 00:00:00; local time is taken   *)
(* to be a zone with a fixed offset of zero and no daylight saving, so a   *)
(* day has 24 hours.  long is 64 bits wide and int is 32 bits wide.        *)
(***************************************************************************)
EXTENDS Integers, Sequences, FiniteSets, TLC

VARIABLES clock, pc, op, input, now, now2, result, ret, timestamp, buf,
          before, locals, trace, returned, due

vars == <<clock, pc, op, input, now, now2, result, ret, timestamp, buf,
          before, locals, trace, returned, due>>

----------------------------------------------------------------------------
(* Characters (<ctype.h>) *)

NUL == "NUL"

UpperCase == <<"A","B","C","D","E","F","G","H","I","J","K","L","M",
               "N","O","P","Q","R","S","T","U","V","W","X","Y","Z">>

LowerCase == <<"a","b","c","d","e","f","g","h","i","j","k","l","m",
               "n","o","p","q","r","s","t","u","v","w","x","y","z">>

DigitChars == <<"0","1","2","3","4","5","6","7","8","9">>

isupper(c) == \E i \in 1..26 : UpperCase[i] = c

islower(c) == \E i \in 1..26 : LowerCase[i] = c

tolower(c) == IF isupper(c) THEN LowerCase[CHOOSE i \in 1..26 : UpperCase[i] = c] ELSE c

toupper(c) == IF islower(c) THEN UpperCase[CHOOSE i \in 1..26 : LowerCase[i] = c] ELSE c

isdigit(c) == \E i \in 1..10 : DigitChars[i] = c

DigitVal(c) == (CHOOSE i \in 1..10 : DigitChars[i] = c) - 1

isspace(c) == c \in {" ", "\t", "\n", "\r", "\f"}

(* *p for the cursor p (1-based) into the string s *)
CharAt(s, p) == IF p >= 1 /\ p <= Len(s) THEN s[p] ELSE NUL

----------------------------------------------------------------------------
(* Strings (<string.h>, <strings.h>) *)

(* strncasecmp(s + p - 1, lit, n) == 0 *)
strncasecmp0(s, p, lit, n) ==
    \A k \in 1..n :
        \/ tolower(CharAt(s, p + k - 1)) = tolower(CharAt(lit, k))
        \/ \E j \in 1..(k - 1) : CharAt(s, p + j - 1) = NUL /\ CharAt(lit, j) = NUL

starts_with(s, p, prefix) == strncasecmp0(s, p, prefix, Len(prefix))

RECURSIVE skip_whitespace(_, _)
skip_whitespace(s, p) ==
    IF isspace(CharAt(s, p)) THEN skip_whitespace(s, p + 1) ELSE p

----------------------------------------------------------------------------
(* Numbers: strtol and the conversion of a long to an int *)

(* The digits of the decimal numeral n >= 0, and back. *)
RECURSIVE NumStr(_)
NumStr(n) == IF n < 10 THEN <<DigitChars[n + 1]>>
             ELSE NumStr(n \div 10) \o <<DigitChars[(n % 10) + 1]>>

RECURSIVE StripZeros(_)
StripZeros(ds) == IF Len(ds) > 1 /\ ds[1] = "0" THEN StripZeros(Tail(ds)) ELSE ds

(* ds < es for two numerals without leading zeros *)
RECURSIVE NumeralLess(_, _)
NumeralLess(ds, es) ==
    IF Len(ds) # Len(es) THEN Len(ds) < Len(es)
    ELSE IF ds = <<>> THEN FALSE
    ELSE IF ds[1] # es[1] THEN DigitVal(ds[1]) < DigitVal(es[1])
    ELSE NumeralLess(Tail(ds), Tail(es))

LONG_MAX_DIGITS == <<"9","2","2","3","3","7","2","0","3","6","8","5","4","7","7","5","8","0","7">>

(* The value of a numeral of at most nine digits. *)
RECURSIVE SmallVal(_, _)
SmallVal(ds, acc) == IF ds = <<>> THEN acc ELSE SmallVal(Tail(ds), acc * 10 + DigitVal(ds[1]))

(* The numeral modulo 2^32 as two 16-bit halves <<hi, lo>>. *)
RECURSIVE Mod32(_, _, _)
Mod32(ds, hi, lo) ==
    IF ds = <<>> THEN <<hi, lo>>
    ELSE LET t == lo * 10 + DigitVal(ds[1])
         IN  Mod32(Tail(ds), (hi * 10 + (t \div 65536)) % 65536, t % 65536)

Neg32(h) == IF h = <<0, 0>> THEN h
            ELSE <<(65535 - h[1] + (IF h[2] = 0 THEN 1 ELSE 0)) % 65536, (65536 - h[2]) % 65536>>

Signed32(h) == IF h[1] >= 32768 THEN (h[1] - 65536) * 65536 + h[2] ELSE h[1] * 65536 + h[2]

(* A long read by strtol, as far as the program looks at it:                *)
(*   asLong  the value itself when its magnitude is below 10^9, and         *)
(*           +-10^9 for every larger magnitude (the program only compares   *)
(*           a long with 0, 1, 12, 23 and 31, and adds 12 to it);           *)
(*   asInt   the value converted to int, (int)v: v modulo 2^32 read as a    *)
(*           two's complement number.                                       *)
(* ds is the numeral without leading zeros; from LONG_MAX on strtol returns *)
(* LONG_MAX (LONG_MIN for a negative numeral).                              *)
LongOfNumeral(negative, ds) ==
    [asLong |-> IF Len(ds) <= 9
                THEN (IF negative THEN 0 - SmallVal(ds, 0) ELSE SmallVal(ds, 0))
                ELSE (IF negative THEN -1000000000 ELSE 1000000000),
     asInt  |-> IF ~NumeralLess(ds, LONG_MAX_DIGITS) THEN (IF negative THEN 0 ELSE -1)
                ELSE IF negative THEN Signed32(Neg32(Mod32(ds, 0, 0)))
                ELSE Signed32(Mod32(ds, 0, 0))]

LongOf(negative, digits) == LongOfNumeral(negative, StripZeros(digits))

RECURSIVE DigitsEnd(_, _)
DigitsEnd(s, p) == IF isdigit(CharAt(s, p)) THEN DigitsEnd(s, p + 1) ELSE p

(* The digits that start at d, which end before e. *)
strtol_digits(s, p, negative, d, e) ==
    IF e = d THEN [endptr |-> p, val |-> LongOf(FALSE, <<"0">>)]
    ELSE [endptr |-> e, val |-> LongOf(negative, SubSeq(s, d, e - 1))]

(* q is the first character that is not white space. *)
strtol_sign(s, p, q) ==
    IF CharAt(s, q) = "+" \/ CharAt(s, q) = "-"
    THEN strtol_digits(s, p, CharAt(s, q) = "-", q + 1, DigitsEnd(s, q + 1))
    ELSE strtol_digits(s, p, FALSE, q, DigitsEnd(s, q))

(* strtol(s + p - 1, &endptr, 10): white space, an optional sign, digits.   *)
(* Without a digit nothing is converted and endptr is the start p.          *)
strtol(s, p) == strtol_sign(s, p, skip_whitespace(s, p))

----------------------------------------------------------------------------
(* Calendar (<time.h>): struct tm, mktime and localtime_r *)

IsLeap(y) == (y % 4 = 0 /\ y % 100 # 0) \/ y % 400 = 0

(* Days from 1970-01-01 to the first day of month m (1..12) of year y. *)
DaysFromCivil(y, m) ==
    LET yy  == IF m <= 2 THEN y - 1 ELSE y
        era == yy \div 400
        yoe == yy - era * 400
        doy == (153 * (IF m > 2 THEN m - 3 ELSE m + 9) + 2) \div 5
        doe == yoe * 365 + yoe \div 4 - yoe \div 100 + doy
    IN  era * 146097 + doe - 719468

CivilOfDayOfYear(y0, doy, mp) ==
    [year  |-> y0 + (IF mp < 10 THEN 0 ELSE 1),
     month |-> IF mp < 10 THEN mp + 3 ELSE mp - 9,
     day   |-> doy - (153 * mp + 2) \div 5 + 1]

CivilOfYearOfEra(era, doe, yoe) ==
    CivilOfDayOfYear(yoe + era * 400,
                     doe - (365 * yoe + yoe \div 4 - yoe \div 100),
                     (5 * (doe - (365 * yoe + yoe \div 4 - yoe \div 100)) + 2) \div 153)

CivilOfDayOfEra(era, doe) ==
    CivilOfYearOfEra(era, doe,
                     (doe - doe \div 1460 + doe \div 36524 - doe \div 146096) \div 365)

(* The calendar date of day number z (days since 1970-01-01). *)
CivilFromDays(z) ==
    CivilOfDayOfEra((z + 719468) \div 146097,
                    (z + 719468) - ((z + 719468) \div 146097) * 146097)

(* mktime: the fields of tm may be out of range (tm_mday = 35); the result  *)
(* is the instant they denote after normalisation.  tm_wday and tm_yday are *)
(* not read.                                                                *)
mktime(tm) ==
    (DaysFromCivil(1900 + tm.tm_year + (tm.tm_mon \div 12), (tm.tm_mon % 12) + 1)
        + tm.tm_mday - 1) * 86400
    + tm.tm_hour * 3600 + tm.tm_min * 60 + tm.tm_sec

TmOfCivil(c, z, r) ==
    [tm_year |-> c.year - 1900, tm_mon |-> c.month - 1, tm_mday |-> c.day,
     tm_hour |-> r \div 3600, tm_min |-> (r % 3600) \div 60, tm_sec |-> r % 60,
     tm_wday |-> (z + 4) % 7,
     tm_yday |-> z - DaysFromCivil(c.year, 1)]

localtime_r(t) == TmOfCivil(CivilFromDays(t \div 86400), t \div 86400, t % 86400)

----------------------------------------------------------------------------
(* The recognizers of date_parser.c.  A const char * is a record            *)
(* [null, chars]; output parameters are returned in the result record.      *)

Str(chars) == [null |-> FALSE, chars |-> chars]

NULL == [null |-> TRUE, chars |-> <<>>]

days == <<<<"s","u","n","d","a","y">>,
         <<"m","o","n","d","a","y">>,
         <<"t","u","e","s","d","a","y">>,
         <<"w","e","d","n","e","s","d","a","y">>,
         <<"t","h","u","r","s","d","a","y">>,
         <<"f","r","i","d","a","y">>,
         <<"s","a","t","u","r","d","a","y">>>>

months == <<<<"j","a","n","u","a","r","y">>,
           <<"f","e","b","r","u","a","r","y">>,
           <<"m","a","r","c","h">>,
           <<"a","p","r","i","l">>,
           <<"m","a","y">>,
           <<"j","u","n","e">>,
           <<"j","u","l","y">>,
           <<"a","u","g","u","s","t">>,
           <<"s","e","p","t","e","m","b","e","r">>,
           <<"o","c","t","o","b","e","r">>,
           <<"n","o","v","e","m","b","e","r">>,
           <<"d","e","c","e","m","b","e","r">>>>

parse_weekday_anywhere(s, p) ==
    LET hits == {i \in 0..6 : \E q \in p..Len(s) : strncasecmp0(s, q, days[i + 1], 3)}
    IN  IF hits = {} THEN [ok |-> FALSE, weekday |-> 0]
        ELSE [ok |-> TRUE, weekday |-> CHOOSE i \in hits : \A j \in hits : i <= j]

(* parse_weekday(s + p - 1, &weekday): the first name whose first three     *)
(* letters match.                                                           *)
parse_weekday(s, p) ==
    LET hits == {i \in 0..6 : strncasecmp0(s, p, days[i + 1], 3)}
    IN  IF hits = {} THEN [ok |-> FALSE, weekday |-> 0]
        ELSE [ok |-> TRUE, weekday |-> CHOOSE i \in hits : \A j \in hits : i <= j]

parse_month_never(s, p) == [ok |-> FALSE, month |-> 0]

(* parse_month(s + p - 1, &month) *)
parse_month(s, p) ==
    LET hits == {i \in 0..11 : strncasecmp0(s, p, months[i + 1], 3)}
    IN  IF hits = {} THEN [ok |-> FALSE, month |-> 0]
        ELSE [ok |-> TRUE, month |-> CHOOSE i \in hits : \A j \in hits : i <= j]

days_until_today(weekday, tm_wday) == (weekday - tm_wday + 7) % 7

(* days_until of lines 164-165 and 220-221 *)
days_until(weekday, tm_wday) ==
    LET d == (weekday - tm_wday + 7) % 7 IN IF d = 0 THEN 7 ELSE d

(* A unit rule that counts days when no unit keyword follows the number *)
relative_unit_default_days(s, out, n, p) ==
    IF starts_with(s, p, <<"h","o","u","r">>) \/ CharAt(s, p) = "h"
    THEN [out EXCEPT !.hours = n.val.asInt]
    ELSE IF \/ starts_with(s, p, <<"m","i","n","u","t","e">>)
            \/ starts_with(s, p, <<"m","i","n">>)
            \/ CharAt(s, p) = "m"
    THEN [out EXCEPT !.minutes = n.val.asInt]
    ELSE [out EXCEPT !.days = n.val.asInt]

(* Lines 141-152: the unit after the number n; p is at the unit. *)
relative_unit(s, out, n, p) ==
    IF starts_with(s, p, <<"d","a","y">>) \/ CharAt(s, p) = "d"
    THEN [out EXCEPT !.days = n.val.asInt]
    ELSE IF starts_with(s, p, <<"h","o","u","r">>) \/ CharAt(s, p) = "h"
    THEN [out EXCEPT !.hours = n.val.asInt]
    ELSE IF \/ starts_with(s, p, <<"m","i","n","u","t","e">>)
            \/ starts_with(s, p, <<"m","i","n">>)
            \/ CharAt(s, p) = "m"
    THEN [out EXCEPT !.minutes = n.val.asInt]
    ELSE [out EXCEPT !.ok = FALSE]

(* Lines 133-139: the number, read at p *)
relative_number(s, out, p, n) ==
    IF n.endptr = p THEN [out EXCEPT !.ok = FALSE]
    ELSE relative_unit(s, out, n, skip_whitespace(s, n.endptr))

(* Lines 158-171: the weekday after "next "; t is the clock read of line 160 *)
relative_next(out, w, t) ==
    IF w.ok
    THEN [out EXCEPT !.days = days_until(w.weekday, localtime_r(t).tm_wday),
                     !.hours = 9, !.minutes = 0]
    ELSE [out EXCEPT !.ok = FALSE]

(* Lines 120-174, with p at the first character that is not white space *)
relative_pattern(s, out, p, t) ==
    IF strncasecmp0(s, p, <<"t","o","m","o","r","r","o","w">>, 8)
    THEN [out EXCEPT !.days = 1, !.hours = 9, !.minutes = 0]
    ELSE IF starts_with(s, p, <<"i","n"," ">>)
    THEN relative_number(s, out, skip_whitespace(s, p + 3),
                         strtol(s, skip_whitespace(s, p + 3)))
    ELSE IF starts_with(s, p, <<"n","e","x","t"," ">>)
    THEN relative_next(out, parse_weekday(s, p + 5), t)
    ELSE [out EXCEPT !.ok = FALSE]

parse_relative_date_no_skip(in, days0, hours0, minutes0, t) ==
    IF in.null
    THEN [ok |-> FALSE, days |-> days0, hours |-> hours0, minutes |-> minutes0]
    ELSE relative_pattern(in.chars,
                          [ok |-> TRUE, days |-> days0, hours |-> hours0, minutes |-> minutes0],
                          1, t)

(* parse_relative_date(input, &days, &hours, &minutes); t is what           *)
(* time(NULL) returns at line 160.  The result holds the return value (ok)  *)
(* and the three output variables.                                          *)
parse_relative_date(in, days0, hours0, minutes0, t) ==
    IF in.null
    THEN [ok |-> FALSE, days |-> days0, hours |-> hours0, minutes |-> minutes0]
    ELSE relative_pattern(in.chars,
                          [ok |-> TRUE, days |-> days0, hours |-> hours0, minutes |-> minutes0],
                          skip_whitespace(in.chars, 1), t)

RECURSIVE FirstDigit(_, _)
FirstDigit(s, p) ==
    IF CharAt(s, p) # NUL /\ ~isdigit(CharAt(s, p)) THEN FirstDigit(s, p + 1) ELSE p

year_rollover_never(tm, t) == tm

(* Lines 194-201: the month and day are put on a copy of the accumulator,  *)
(* which still holds the time-of-day of the first clock read, and compared  *)
(* with a fresh clock read t.                                               *)
year_rollover(tm, t) ==
    IF mktime(tm) < t THEN [tm EXCEPT !.tm_year = @ + 1] ELSE tm

(* Lines 204-206 and 224-226: "Default to 9 AM" *)
default_time(tm) == [tm EXCEPT !.tm_hour = 9, !.tm_min = 0, !.tm_sec = 0]

(* A bare weekday that stays on today when today is that weekday *)
absolute_weekday_today(tm, wd, t) ==
    IF wd.ok
    THEN [ok |-> TRUE,
          tm |-> default_time([tm EXCEPT !.tm_mday =
                     @ + days_until_today(wd.weekday, localtime_r(t).tm_wday)])]
    ELSE [ok |-> FALSE, tm |-> tm]

(* Lines 213-229: the bare weekday; t is the clock read of line 216 *)
absolute_weekday(tm, wd, t) ==
    IF wd.ok
    THEN [ok |-> TRUE,
          tm |-> default_time([tm EXCEPT !.tm_mday =
                     @ + days_until(wd.weekday, localtime_r(t).tm_wday)])]
    ELSE [ok |-> FALSE, tm |-> tm]

(* A month+day pattern that bounds the day by the length of the month *)
absolute_month_day_per_month(s, tm, mo, p, day, t) ==
    IF /\ mo.ok /\ CharAt(s, p) # NUL /\ day >= 1
       /\ day <= (IF mo.month = 1 THEN (IF IsLeap(1900 + tm.tm_year) THEN 29 ELSE 28)
                  ELSE IF mo.month \in {3, 5, 8, 10} THEN 30 ELSE 31)
    THEN [ok |-> TRUE,
          tm |-> default_time(year_rollover([tm EXCEPT !.tm_mon = mo.month,
                                                       !.tm_mday = day], t))]
    ELSE absolute_weekday(tm, parse_weekday(s, 1), t)

(* Lines 182-211: the month name and the day number read at the first digit *)
(* p; t is the clock read of line 197.                                      *)
absolute_month_day(s, tm, mo, p, day, t) ==
    IF mo.ok /\ CharAt(s, p) # NUL /\ day >= 1 /\ day <= 31
    THEN [ok |-> TRUE,
          tm |-> default_time(year_rollover([tm EXCEPT !.tm_mon = mo.month,
                                                       !.tm_mday = day], t))]
    ELSE absolute_weekday(tm, parse_weekday(s, 1), t)

(* parse_absolute_date(input, tm); t is what time(NULL) returns at line 197 *)
(* or at line 216.  The result holds the return value (ok) and *tm.         *)
parse_absolute_date(in, tm, t) ==
    IF in.null THEN [ok |-> FALSE, tm |-> tm]
    ELSE absolute_month_day(in.chars, tm, parse_month(in.chars, 1),
                            FirstDigit(in.chars, 1),
                            strtol(in.chars, FirstDigit(in.chars, 1)).val.asLong, t)

adjust_hours_pm_below_12(hours, has_am_pm, is_pm) ==
    IF has_am_pm
    THEN IF hours = 12 THEN (IF is_pm THEN 12 ELSE 0)
         ELSE IF is_pm /\ hours < 12 THEN hours + 12
         ELSE hours
    ELSE IF hours >= 0 /\ hours < 12 THEN hours + 12
    ELSE hours

adjust_hours_no_default(hours, has_am_pm, is_pm) ==
    IF has_am_pm
    THEN IF hours = 12 THEN (IF is_pm THEN 12 ELSE 0)
         ELSE IF is_pm THEN hours + 12
         ELSE hours
    ELSE hours

(* Lines 275-285: "Adjust hours for 12-hour format" *)
adjust_hours(hours, has_am_pm, is_pm) ==
    IF has_am_pm
    THEN IF hours = 12 THEN (IF is_pm THEN 12 ELSE 0)
         ELSE IF is_pm THEN hours + 12
         ELSE hours
    ELSE IF hours >= 0 /\ hours < 12 THEN hours + 12
    ELSE hours

(* Lines 287-288: the range checks *)
time_in_range(hours, tm_min) ==
    ~(hours < 0 \/ hours > 23) /\ ~(tm_min < 0 \/ tm_min > 59)

time_validate_keeps_seconds(tm, hours) ==
    IF ~time_in_range(hours, tm.tm_min) THEN [ok |-> FALSE, tm |-> tm]
    ELSE [ok |-> TRUE, tm |-> [tm EXCEPT !.tm_hour = hours]]

(* Lines 287-293, with the hours adjusted *)
time_validate(tm, hours) ==
    IF ~time_in_range(hours, tm.tm_min) THEN [ok |-> FALSE, tm |-> tm]
    ELSE [ok |-> TRUE, tm |-> [tm EXCEPT !.tm_hour = hours, !.tm_sec = 0]]

(* Lines 267-285, with c the character after the minutes and white space.   *)
(* After an a or p only an optional m is skipped: nothing that follows the  *)
(* time is read.                                                            *)
time_meridiem(tm, hours, c) ==
    time_validate(tm, adjust_hours(hours, toupper(c) = "A" \/ toupper(c) = "P",
                                   toupper(c) = "P"))

(* Lines 253-265: the minutes m read after a colon at p *)
time_minutes(s, tm, hours, p, m) ==
    IF m.endptr = p + 1 THEN [ok |-> FALSE, tm |-> tm]
    ELSE time_meridiem([tm EXCEPT !.tm_min = m.val.asInt], hours,
                       CharAt(s, skip_whitespace(s, m.endptr)))

(* Lines 245-265, with p the first character after the hours and white      *)
(* space                                                                    *)
time_after_hours(s, tm, hours, p) ==
    IF CharAt(s, p) = ":" THEN time_minutes(s, tm, hours, p, strtol(s, p + 1))
    ELSE time_meridiem([tm EXCEPT !.tm_min = 0], hours,
                       CharAt(s, skip_whitespace(s, p)))

(* Lines 240-251: the hours h read at p0 *)
time_hours(s, tm, p0, h) ==
    IF h.endptr = p0 THEN [ok |-> FALSE, tm |-> tm]
    ELSE time_after_hours(s, tm, h.val.asLong, skip_whitespace(s, h.endptr))

(* parse_time(input, tm).  The result holds the return value (ok) and *tm:  *)
(* tm_min is written (as an int) before the range checks, so a failure      *)
(* after that point leaves it changed.                                      *)
parse_time(in, tm) ==
    IF in.null THEN [ok |-> FALSE, tm |-> tm]
    ELSE time_hours(in.chars, tm, skip_whitespace(in.chars, 1),
                    strtol(in.chars, skip_whitespace(in.chars, 1)))

----------------------------------------------------------------------------
(* The entry points.  A time_t * is a record [null, val]: val is the value  *)
(* of the caller's variable.  t1 is the clock read at the start of the call *)
(* and t2 the clock read inside a recognizer (t1 <= t2).                    *)

natural_time_next_day(res, tim) ==
    IF tim.ok
    THEN [ret |-> TRUE, result |-> [res EXCEPT !.val = mktime(tim.tm) + 24 * 60 * 60]]
    ELSE [ret |-> FALSE, result |-> res]

(* A time-only step that stores the instant before it looks at the outcome *)
natural_time_stores_first(res, tim) ==
    [ret |-> tim.ok, result |-> [res EXCEPT !.val = mktime(tim.tm)]]

(* Lines 47-53 *)
natural_time(res, tim) ==
    IF tim.ok THEN [ret |-> TRUE, result |-> [res EXCEPT !.val = mktime(tim.tm)]]
    ELSE [ret |-> FALSE, result |-> res]

(* Lines 41-53 *)
natural_absolute(in, res, abs) ==
    IF abs.ok THEN [ret |-> TRUE, result |-> [res EXCEPT !.val = mktime(abs.tm)]]
    ELSE natural_time(res, parse_time(in, abs.tm))

natural_relative_additive(in, res, tm_result, rel, t2) ==
    IF rel.ok
    THEN [ret |-> TRUE,
          result |-> [res EXCEPT !.val =
                         mktime([tm_result EXCEPT !.tm_mday = @ + rel.days,
                                                  !.tm_hour = @ + rel.hours,
                                                  !.tm_min = @ + rel.minutes])]]
    ELSE natural_absolute(in, res, parse_absolute_date(in, tm_result, t2))

(* Lines 28-53 *)
natural_relative(in, res, tm_result, rel, t2) ==
    IF rel.ok
    THEN [ret |-> TRUE,
          result |-> [res EXCEPT !.val =
                         mktime([tm_result EXCEPT !.tm_mday = @ + rel.days,
                                                  !.tm_hour = rel.hours,
                                                  !.tm_min = rel.minutes,
                                                  !.tm_sec = 0])]]
    ELSE natural_absolute(in, res, parse_absolute_date(in, tm_result, t2))

parse_natural_date(in, res, t1, t2) ==
    IF in.null \/ res.null THEN [ret |-> FALSE, result |-> res]
    ELSE natural_relative(in, res, localtime_r(t1),
                          parse_relative_date(in, 0, 0, 0, t2), t2)

today_roll_at_or_before(res, tim, r, t1) ==
    IF ~tim.ok THEN [ret |-> FALSE, result |-> res]
    ELSE [ret |-> TRUE,
          result |-> [res EXCEPT !.val = IF r <= t1 THEN r + 24 * 60 * 60 ELSE r]]

(* A parse_time_today that never moves the instant to the next day *)
today_roll_never(res, tim, r, t1) ==
    IF ~tim.ok THEN [ret |-> FALSE, result |-> res]
    ELSE [ret |-> TRUE, result |-> [res EXCEPT !.val = r]]

(* Lines 64-76, with the outcome of parse_time *)
today_roll(res, tim, r, t1) ==
    IF ~tim.ok THEN [ret |-> FALSE, result |-> res]
    ELSE [ret |-> TRUE,
          result |-> [res EXCEPT !.val = IF r < t1 THEN r + 24 * 60 * 60 ELSE r]]

today_time(res, tim, t1) == today_roll(res, tim, mktime(tim.tm), t1)

parse_time_today_unchecked_result(in, res, t1) ==
    IF in.null THEN [ret |-> FALSE, result |-> res]
    ELSE today_time(res, parse_time(in, localtime_r(t1)), t1)

parse_time_today(in, res, t1) ==
    IF in.null \/ res.null THEN [ret |-> FALSE, result |-> res]
    ELSE today_time(res, parse_time(in, localtime_r(t1)), t1)

(* The local variables of an entry point when it returns: the three offsets *)
(* of parse_natural_date and the struct tm the recognizers worked on        *)
(* (tm_result, and tm_now in parse_time_today).  mktime normalises the      *)
(* struct it is given.                                                      *)
NoLocals == [days_offset |-> 0, hours_offset |-> 0, minutes_offset |-> 0, tm |-> <<>>]

Locals(rel, tm) ==
    [days_offset |-> rel.days, hours_offset |-> rel.hours, minutes_offset |-> rel.minutes,
     tm |-> tm]

(* Lines 47-53 *)
natural_locals_time(rel, tim) ==
    IF tim.ok THEN Locals(rel, localtime_r(mktime(tim.tm))) ELSE Locals(rel, tim.tm)

(* Lines 41-53 *)
natural_locals_absolute(in, rel, abs) ==
    IF abs.ok THEN Locals(rel, localtime_r(mktime(abs.tm)))
    ELSE natural_locals_time(rel, parse_time(in, abs.tm))

(* Lines 28-53 *)
natural_locals_relative(in, tm_result, rel, t2) ==
    IF rel.ok
    THEN Locals(rel, localtime_r(mktime([tm_result EXCEPT !.tm_mday = @ + rel.days,
                                                          !.tm_hour = rel.hours,
                                                          !.tm_min = rel.minutes,
                                                          !.tm_sec = 0])))
    ELSE natural_locals_absolute(in, rel, parse_absolute_date(in, tm_result, t2))

(* The locals of parse_natural_date(in, res) at its return *)
parse_natural_date_locals(in, res, t1, t2) ==
    IF in.null \/ res.null THEN NoLocals
    ELSE natural_locals_relative(in, localtime_r(t1),
                                 parse_relative_date(in, 0, 0, 0, t2), t2)

today_locals(tim) ==
    [days_offset |-> 0, hours_offset |-> 0, minutes_offset |-> 0,
     tm |-> IF tim.ok THEN localtime_r(mktime(tim.tm)) ELSE tim.tm]

(* The locals of parse_time_today(in, res) at its return *)
parse_time_today_locals(in, res, t1) ==
    IF in.null \/ res.null THEN NoLocals
    ELSE today_locals(parse_time(in, localtime_r(t1)))

----------------------------------------------------------------------------
(* The formatter.  A char * buffer is a record [null, size, chars]: size is *)
(* buf_size and chars the string in the buffer.                             *)

(* The letters of a literal, one character each. *)
Today_at == <<"T","o","d","a","y"," ","a","t"," ">>

Tomorrow_at == <<"T","o","m","o","r","r","o","w"," ","a","t"," ">>

label_at == <<" ","a","t"," ">>

Capitalized(w) == <<toupper(w[1])>> \o Tail(w)

(* strftime "%I:%M %p" in the C locale: 12-hour clock, two digits each *)
strftime_I_M_p(tm) ==
    (IF tm.tm_hour % 12 = 0 THEN <<"1","2">>
     ELSE IF tm.tm_hour % 12 < 10 THEN <<"0">> \o NumStr(tm.tm_hour % 12)
     ELSE NumStr(tm.tm_hour % 12))
    \o <<":">>
    \o (IF tm.tm_min < 10 THEN <<"0">> \o NumStr(tm.tm_min) ELSE NumStr(tm.tm_min))
    \o <<" ">>
    \o (IF tm.tm_hour < 12 THEN <<"A","M">> ELSE <<"P","M">>)

(* strftime "%A": the full weekday name *)
strftime_A(tm) == Capitalized(days[tm.tm_wday + 1])

(* strftime "%b %d": the abbreviated month name and the day in two digits *)
strftime_b_d(tm) ==
    Capitalized(SubSeq(months[tm.tm_mon + 1], 1, 3))
    \o <<" ">>
    \o (IF tm.tm_mday < 10 THEN <<"0">> \o NumStr(tm.tm_mday) ELSE NumStr(tm.tm_mday))

days_diff_no_wrap(tm, tm_now) == tm.tm_yday - tm_now.tm_yday

(* Line 90 *)
days_diff(tm, tm_now) == (tm.tm_yday - tm_now.tm_yday + 365) % 365

(* Lines 95-107: the text chosen by days_diff *)
format_label(tm, diff, time_buf) ==
    IF diff = 0 THEN Today_at \o time_buf
    ELSE IF diff = 1 THEN Tomorrow_at \o time_buf
    ELSE IF diff < 7 THEN strftime_A(tm) \o label_at \o time_buf
    ELSE strftime_b_d(tm) \o label_at \o time_buf

(* snprintf(buf, buf_size, ...): at most buf_size - 1 characters are stored *)
snprintf(b, text) ==
    [b EXCEPT !.chars = IF Len(text) <= b.size - 1 THEN text
                        ELSE SubSeq(text, 1, b.size - 1)]

(* Lines 82-109, with the two broken-down times *)
format_text(b, tm, tm_now) ==
    [ret |-> TRUE,
     buf |-> snprintf(b, format_label(tm, days_diff(tm, tm_now), strftime_I_M_p(tm)))]

(* format_natural_date(ts, b.chars, b.size); t is the clock read of line    *)
(* 86.  ret tells whether the return value is the buffer (TRUE) or NULL.    *)
format_natural_date(ts, b, t) ==
    IF b.null \/ b.size < 1 THEN [ret |-> FALSE, buf |-> b]
    ELSE format_text(b, localtime_r(ts), localtime_r(t))

----------------------------------------------------------------------------
(* utils_parse_date (src/src/utils.c) and the conversion of the due field   *)
(* of an AI action (src/src/ai_chat_actions.c).                             *)

(* The formats handed to strptime: a conversion is written "%Y", any other  *)
(* element is a character of the format.                                    *)
ISO_DATE_TIME == <<"%Y","-","%m","-","%d","T","%H",":","%M",":","%S","Z">>

ISO_DATE == <<"%Y","-","%m","-","%d">>

MONTH_DAY_YEAR == <<"%m","/","%d","/","%Y">>

DAY_MONTH_YEAR == <<"%d","/","%m","/","%Y">>

NAME_DAY_YEAR == <<"%b"," ","%d",","," ","%Y">>

DAY_NAME_YEAR == <<"%d"," ","%b"," ","%Y">>

(* The range [from, to] and the number of digits of a numeric conversion *)
NumberRange(c) ==
    IF c = "%Y" THEN <<0, 9999, 4>>
    ELSE IF c = "%m" THEN <<1, 12, 2>>
    ELSE IF c = "%d" THEN <<1, 31, 2>>
    ELSE IF c = "%H" THEN <<0, 23, 2>>
    ELSE IF c = "%M" THEN <<0, 59, 2>>
    ELSE <<0, 61, 2>>

(* The field a numeric conversion stores *)
StoreNumber(tm, c, val) ==
    IF c = "%Y" THEN [tm EXCEPT !.tm_year = val - 1900]
    ELSE IF c = "%m" THEN [tm EXCEPT !.tm_mon = val - 1]
    ELSE IF c = "%d" THEN [tm EXCEPT !.tm_mday = val]
    ELSE IF c = "%H" THEN [tm EXCEPT !.tm_hour = val]
    ELSE IF c = "%M" THEN [tm EXCEPT !.tm_min = val]
    ELSE [tm EXCEPT !.tm_sec = val]

(* The digits of a number after its first: at most n more, and none once    *)
(* ten times the value read so far exceeds the upper limit.                 *)
RECURSIVE number_digits(_, _, _, _, _)
number_digits(s, p, val, n, to) ==
    IF n > 0 /\ val * 10 <= to /\ isdigit(CharAt(s, p))
    THEN number_digits(s, p + 1, val * 10 + DigitVal(CharAt(s, p)), n - 1, to)
    ELSE [endptr |-> p, val |-> val]

(* A number read at q, the first character that is not white space *)
strptime_number(s, q, range) ==
    IF ~isdigit(CharAt(s, q)) THEN [ok |-> FALSE, endptr |-> q, val |-> 0]
    ELSE [ok |-> TRUE] @@ number_digits(s, q + 1, DigitVal(CharAt(s, q)), range[3] - 1, range[2])

(* The month name at p: the full name, else its first three letters *)
strptime_month(s, p) ==
    LET full  == {i \in 0..11 : starts_with(s, p, months[i + 1])}
        short == {i \in 0..11 : strncasecmp0(s, p, months[i + 1], 3)}
    IN  IF full # {} THEN [ok |-> TRUE, month |-> CHOOSE i \in full : TRUE,
                           endptr |-> p + Len(months[(CHOOSE i \in full : TRUE) + 1])]
        ELSE IF short # {} THEN [ok |-> TRUE, month |-> CHOOSE i \in short : TRUE,
                                 endptr |-> p + 3]
        ELSE [ok |-> FALSE, month |-> 0, endptr |-> p]

(* strptime(s + p - 1, fmt + i - 1, &tm).  The result tells whether the     *)
(* return value is not NULL (ok) and holds *tm, which keeps what was stored *)
(* before a mismatch.  Input that follows the match is not looked at.       *)
RECURSIVE strptime_from(_, _, _, _, _)
strptime_number_at(s, fmt, i, tm, num) ==
    IF ~num.ok \/ num.val < NumberRange(fmt[i])[1] \/ num.val > NumberRange(fmt[i])[2]
    THEN [ok |-> FALSE, tm |-> tm]
    ELSE strptime_from(s, num.endptr, fmt, i + 1, StoreNumber(tm, fmt[i], num.val))

strptime_month_at(s, fmt, i, tm, mon) ==
    IF ~mon.ok THEN [ok |-> FALSE, tm |-> tm]
    ELSE strptime_from(s, mon.endptr, fmt, i + 1, [tm EXCEPT !.tm_mon = mon.month])

strptime_from(s, p, fmt, i, tm) ==
    IF i > Len(fmt) THEN [ok |-> TRUE, tm |-> tm]
    ELSE IF isspace(fmt[i]) THEN strptime_from(s, skip_whitespace(s, p), fmt, i + 1, tm)
    ELSE IF fmt[i] = "%b" THEN strptime_month_at(s, fmt, i, tm, strptime_month(s, p))
    ELSE IF Len(fmt[i]) = 2
    THEN strptime_number_at(s, fmt, i, tm,
                            strptime_number(s, skip_whitespace(s, p), NumberRange(fmt[i])))
    ELSE IF CharAt(s, p) = fmt[i] THEN strptime_from(s, p + 1, fmt, i + 1, tm)
    ELSE [ok |-> FALSE, tm |-> tm]

strptime(s, fmt, tm) == strptime_from(s, 1, fmt, 1, tm)

(* struct tm tm = {0} *)
ZeroTm == [tm_year |-> 0, tm_mon |-> 0, tm_mday |-> 0, tm_hour |-> 0, tm_min |-> 0,
           tm_sec |-> 0, tm_wday |-> 0, tm_yday |-> 0]

(* timegm: as mktime, in UTC *)
timegm(tm) == mktime(tm)

(* Lines 30-34 and 42-46: "Set to midnight UTC" *)
midnight_utc(tm) == timegm([tm EXCEPT !.tm_hour = 0, !.tm_min = 0, !.tm_sec = 0])

(* Lines 38-50, one format after the other on the same tm *)
utils_other_4(s, r) ==
    IF r.ok THEN midnight_utc(r.tm) ELSE 0

utils_other_3(s, r) ==
    IF r.ok THEN midnight_utc(r.tm) ELSE utils_other_4(s, strptime(s, DAY_NAME_YEAR, r.tm))

utils_other_2(s, r) ==
    IF r.ok THEN midnight_utc(r.tm) ELSE utils_other_3(s, strptime(s, NAME_DAY_YEAR, r.tm))

utils_other_1(s, r) ==
    IF r.ok THEN midnight_utc(r.tm) ELSE utils_other_2(s, strptime(s, DAY_MONTH_YEAR, r.tm))

(* Lines 28-50 *)
utils_date_only(s, r) ==
    IF r.ok THEN midnight_utc(r.tm) ELSE utils_other_1(s, strptime(s, MONTH_DAY_YEAR, r.tm))

(* Lines 20-50: "Fall back to standard date formats" *)
utils_date_time(s, r) ==
    IF r.ok THEN timegm(r.tm) ELSE utils_date_only(s, strptime(s, ISO_DATE, r.tm))

(* Lines 14-50, with the outcome of parse_natural_date *)
utils_natural(s, nat) ==
    IF nat.ret
    THEN [returned |-> nat.result.val, result |-> nat.result, natural |-> TRUE,
          trace |-> <<"utils_parse_date", "parse_natural_date">>]
    ELSE [returned |-> utils_date_time(s.chars, strptime(s.chars, ISO_DATE_TIME, ZeroTm)),
          result |-> nat.result, natural |-> FALSE,
          trace |-> <<"utils_parse_date", "parse_natural_date", "strptime">>]

(* A utils_parse_date that goes to the standard formats at once *)
utils_parse_date_no_natural(s, t1, t2) ==
    IF s.null \/ s.chars = <<>>
    THEN [returned |-> 0, result |-> [null |-> TRUE, val |-> 0], natural |-> FALSE,
          trace |-> <<"utils_parse_date">>]
    ELSE [returned |-> utils_date_time(s.chars, strptime(s.chars, ISO_DATE_TIME, ZeroTm)),
          result |-> [null |-> FALSE, val |-> 0], natural |-> FALSE,
          trace |-> <<"utils_parse_date", "strptime">>]

(* utils_parse_date(s); t1 and t2 are the clock reads of the call of        *)
(* parse_natural_date.  The result holds the return value (returned), the   *)
(* local variable result, whether parse_natural_date accepted the string    *)
(* (natural) and the functions that were called (trace).                    *)
utils_parse_date(s, t1, t2) ==
    IF s.null \/ s.chars = <<>>
    THEN [returned |-> 0, result |-> [null |-> TRUE, val |-> 0], natural |-> FALSE,
          trace |-> <<"utils_parse_date">>]
    ELSE utils_natural(s, parse_natural_date(s, [null |-> FALSE, val |-> 0], t1, t2))

(* A cJSON item is a record [kind, valuestring]; kind "absent" is the NULL  *)
(* pointer cJSON_GetObjectItem returns for a missing field.  callers are    *)
(* the functions on the call stack.                                         *)
due_string(callers, out) ==
    [out EXCEPT !.trace = callers \o @]

(* parse_due_date_from_json (ai_chat_actions.c:41-53, used by               *)
(* handle_add_task, default 0) and the same conversion in handle_edit_task  *)
(* (lines 158-166, default -1).                                             *)
due_date_from_json(callers, item, default, t1, t2) ==
    IF item.kind = "string" THEN due_string(callers, utils_parse_date(item.valuestring, t1, t2))
    ELSE [returned |-> IF item.kind = "null" THEN 0 ELSE default,
          result |-> [null |-> TRUE, val |-> 0], natural |-> FALSE,
          trace |-> callers]

----------------------------------------------------------------------------
(* The inputs the calls are made with. *)

MaxN == 3

UnitWords == {<<"d","a","y","s">>,
              <<"d","a","y">>,
              <<"d">>,
              <<"h","o","u","r","s">>,
              <<"h","o","u","r">>,
              <<"h">>,
              <<"m","i","n","u","t","e","s">>,
              <<"m","i","n","u","t","e">>,
              <<"m","i","n">>,
              <<"m">>}

In(n, sep, unit) == <<"i","n"," ">> \o n \o sep \o unit

InDays(n) == In(NumStr(n), <<" ">>, <<"d","a","y","s">>)

NextDay(w) == <<"n","e","x","t"," ">> \o w

MonthDay(m, d) == SubSeq(months[m + 1], 1, 3) \o <<" ">> \o NumStr(d)

RelativeInputs ==
    {In(NumStr(n), <<" ">>, u) : n \in 0..MaxN, u \in UnitWords}
    \cup {NextDay(days[w + 1]) : w \in 0..6}
    \cup {<<"t","o","m","o","r","r","o","w">>,
          <<"T","o","m","o","r","r","o","w">>,
          <<" ","t","o","m","o","r","r","o","w">>,
          <<"t","o","m","o","r","r","o","w"," ","2","p","m">>,
          <<"T","O","M","O","R","R","O","W">>,
          <<"t","o","m","o","r","o","w">>,
          <<"i","n"," ","4","2","9","4","9","6","7","2","9","7"," ","d","a","y","s">>,
          <<"i","n"," ","-","1"," ","d","a","y","s">>,
          <<"i","n"," ","x","y","z"," ","d","a","y","s">>,
          <<"i","n"," ">>,
          <<"i","n"," ","3">>,
          <<"i","n"," ","3"," ","w","e","e","k","s">>,
          <<"i","n"," ","1"," ","d","a","y"," ","2"," ","h","o","u","r","s">>,
          <<"I","N"," ","2"," ","D","A","Y","S">>,
          <<"i","n"," "," ","2"," "," ","d","a","y","s">>,
          <<" ","i","n"," ","2"," ","d","a","y","s">>,
          <<"i","n"," ","2","d","a","y","s">>,
          <<"i","n"," ","5","p","m">>,
          <<"i","n"," ","m","a","y"," ","2","0">>,
          <<"i","n"," ","m","o","n","d","a","y">>,
          <<"i","n"," ","2",":","3","0">>,
          <<"n","e","x","t"," ","x","y","z">>,
          <<"n","e","x","t"," "," ","m","o","n","d","a","y">>,
          <<"N","e","x","t"," ","F","r","i","d","a","y">>,
          <<"N","E","X","T"," ","M","O","N">>,
          <<"n","e","x","t"," ","m","o","n">>,
          <<" ","n","e","x","t"," ","t","u","e","s","d","a","y">>,
          <<"n","e","x","t"," ","5">>,
          <<"n","e","x","t"," ","m","a","y"," ","2","0">>,
          <<"n","e","x","t"," ","2","p","m">>,
          <<"n","e","x","t"," ">>,
          <<"n","e","x","t">>}

SampleMonths == {0, 1, 4, 11}

SampleDays == {1, 20, 28, 29, 31}

AbsoluteInputs ==
    {MonthDay(m, d) : m \in SampleMonths, d \in SampleDays}
    \cup {days[w + 1] : w \in 0..6}
    \cup {<<"D","e","c"," ","2","5">>,
          <<"D","e","c"," ","2","5"," ","2","p","m">>,
          <<"m","a","y"," ","2","0",","," ","2","0","2","5">>,
          <<"M","a","y"," ","2","0">>,
          <<"M","A","Y"," ","2","0">>,
          <<"m","a","y">>,
          <<"m","a","y"," ","0">>,
          <<"m","a","y"," ","3","2">>,
          <<"f","e","b"," ","3","0">>,
          <<"m","a","r","c","h"," ","2","0","2","5">>,
          <<"m","a","y"," ","t","h","e"," ","4","t","h">>,
          <<" ","m","a","y"," ","2","0">>,
          <<" ","m","o","n","d","a","y">>,
          <<"m","o","n">>,
          <<"M","o","n","d","a","y">>,
          <<"F","R","I">>,
          <<"m","o","n","d","a","y"," ","2","p","m">>,
          <<"j","u","n","e","1","5">>}

SampleHours == {0, 2, 9, 11, 12, 13, 14, 23, 24, 25}

SampleMinutes == {0, 30, 60}

HourWords == {NumStr(h) : h \in SampleHours}

TwoDigits(n) == IF n < 10 THEN <<"0">> \o NumStr(n) ELSE NumStr(n)

ColonMinute(m) == <<":">> \o TwoDigits(m)

MinuteWords == {<<>>} \cup {ColonMinute(m) : m \in SampleMinutes}

MeridiemWords == {<<>>,
                  <<"a","m">>,
                  <<"p","m">>,
                  <<"P","M">>,
                  <<"x","x">>}

Time(h, m, x) == h \o m \o x

TimeInputs ==
    {Time(h, m, x) : h \in HourWords, m \in MinuteWords, x \in MeridiemWords}
    \cup {<<"-","3">>,
          <<"-","3","p","m">>,
          <<"-","3",":","0","0">>,
          <<"2"," ","p","m">>,
          <<"2",":","3","0"," ","p","m">>,
          <<"2"," ",":"," ","3","0">>,
          <<"2","p">>,
          <<"2","a">>,
          <<"9",":","1","5","a","m">>,
          <<"1","3",":","7","0">>,
          <<"1","3",":","-","5">>,
          <<"1","3",":">>,
          <<"1","3",":","4","2","9","4","9","6","7","2","9","6">>,
          <<"1",":","4","2","9","4","9","6","7","3","2","6","p","m">>,
          <<" ","2","p","m">>,
          <<"\t","1","4",":","3","0">>,
          <<"1","2",":","0","0","x","x">>,
          <<"1","2",":","0","0"," ","x","x">>,
          <<"2",":","3","0","x">>,
          <<"1","4",":","3","0"," ","t","o","m","o","r","r","o","w">>,
          <<"+","5">>,
          <<"5",".","3","0">>,
          <<"1","4","h","3","0">>,
          <<"2","p","m","x">>,
          <<"1","2","a","m">>,
          <<"1","2"," ","a","m">>}

OtherInputs == {<<>>,
                <<"n","o","t"," ","a"," ","d","a","t","e">>,
                <<" "," "," ">>,
                <<"x","y","z">>,
                <<"t","o","d","a","y">>,
                <<"T","o","d","a","y"," ","a","t"," ","0","2",":","3","0"," ","P","M">>,
                <<"n","o","o","n">>}

(* The caller's time_t variable before the call (utils.c:15 sets 0, the     *)
(* tests leave it uninitialised), or no variable at all.                    *)
Results == {[null |-> FALSE, val |-> 0], [null |-> FALSE, val |-> -1], [null |-> TRUE, val |-> 0]}

(* The instants at which the clock is looked at. *)
SampleDates == {<<2024, 2, 28>>, <<2024, 2, 29>>, <<2024, 12, 31>>, <<2025, 1, 1>>,
                <<2025, 5, 18>>, <<2025, 5, 19>>, <<2025, 5, 20>>, <<2025, 5, 21>>,
                <<2025, 5, 22>>, <<2025, 5, 23>>, <<2025, 5, 24>>}

SampleTimes == {<<0, 0, 0>>, <<8, 59, 59>>, <<9, 0, 0>>, <<15, 30, 0>>, <<23, 59, 59>>}

At(date, time) ==
    mktime([tm_year |-> date[1] - 1900, tm_mon |-> date[2] - 1, tm_mday |-> date[3],
            tm_hour |-> time[1], tm_min |-> time[2], tm_sec |-> time[3],
            tm_wday |-> 0, tm_yday |-> 0])

ClockValues == {At(d, t) : d \in SampleDates, t \in SampleTimes}

(* The longest a call takes, in seconds. *)
MaxCallSeconds == 1

(* The caller's buffers: none, one of size 0, one for the empty string     *)
(* only, one too short for every text, and one that holds every text.       *)
BufferSizes == {0, 1, 8, 64}

NoBuffer == [null |-> TRUE, size |-> 0, chars |-> <<>>]

Buffers == {[null |-> FALSE, size |-> n, chars |-> <<>>] : n \in BufferSizes} \cup {NoBuffer}

LargeBuffer == [null |-> FALSE, size |-> 64, chars |-> <<>>]

(* The texts format_natural_date writes, which a caller can hand back to    *)
(* the parser.                                                              *)
FormatLabels ==
    {format_natural_date(ts, LargeBuffer, t).buf.chars : ts \in ClockValues, t \in ClockValues}

(* Day numbers at and beyond the bounds of the month+day pattern, and month *)
(* names with no day.                                                       *)
BoundaryDays == {0, 30, 32}

MonthWords == {SubSeq(months[m + 1], 1, 3) : m \in SampleMonths}
              \cup {months[m + 1] : m \in SampleMonths}

DayBoundInputs == {MonthDay(m, d) : m \in SampleMonths, d \in BoundaryDays} \cup MonthWords

Inputs == {Str(s) : s \in RelativeInputs \cup AbsoluteInputs \cup TimeInputs \cup OtherInputs
                          \cup FormatLabels \cup DayBoundInputs}
              \cup {NULL}

(* The dates written in the formats of utils_parse_date. *)
WrittenDates == {<<2025, 5, 20>>, <<2025, 12, 25>>, <<2025, 1, 5>>, <<2024, 2, 29>>,
                 <<2026, 6, 24>>, <<2025, 10, 13>>}

MonthName(m) == Capitalized(SubSeq(months[m], 1, 3))

IsoDate(d) == NumStr(d[1]) \o <<"-">> \o TwoDigits(d[2]) \o <<"-">> \o TwoDigits(d[3])

UsDate(d) == TwoDigits(d[2]) \o <<"/">> \o TwoDigits(d[3]) \o <<"/">> \o NumStr(d[1])

EuDate(d) == TwoDigits(d[3]) \o <<"/">> \o TwoDigits(d[2]) \o <<"/">> \o NumStr(d[1])

NameDate(d) == MonthName(d[2]) \o <<" ">> \o NumStr(d[3]) \o <<",", " ">> \o NumStr(d[1])

DayNameDate(d) == NumStr(d[3]) \o <<" ">> \o MonthName(d[2]) \o <<" ">> \o NumStr(d[1])

IsoDateTime(d, t) ==
    IsoDate(d) \o <<"T">> \o TwoDigits(t[1]) \o <<":">> \o TwoDigits(t[2])
               \o <<":">> \o TwoDigits(t[3]) \o <<"Z">>

DateFormatInputs ==
    UNION {{IsoDate(d), UsDate(d), EuDate(d), NameDate(d), DayNameDate(d)} : d \in WrittenDates}

DateStrings ==
    {Str(s) : s \in DateFormatInputs
                    \cup {IsoDateTime(<<2025, 5, 20>>, <<14, 30, 0>>),
                          IsoDateTime(<<2025, 5, 20>>, <<23, 59, 61>>),
                          <<"2","0","2","5","-","0","5","-","2","0","T","1","4",":","3","0">>,
                          <<"2","0","2","5","-","1","3","-","4","0">>,
                          <<"2","0","2","5","-","0","2","-","3","0">>,
                          <<"2","0","2","5","-","5","-","7">>,
                          <<" ","2","0","2","5","-","0","5","-","2","0">>,
                          <<"2","0","2","5","/","0","5","/","2","0">>,
                          <<"4","5","/","1","2","/","2","0","2","5">>,
                          <<"2","5","/","1","2","/","1","9","7","0">>,
                          <<"3","1"," ","S","e","p","t"," ","2","0","2","5">>,
                          <<"3","1"," ","d","e","c","e","m","b","e","r"," ","2","0","2","5">>,
                          <<"3","1","D","e","c","2","0","2","5">>,
                          <<" ","M","a","y"," ","2","0",","," ","2","0","2","5">>,
                          <<"t","o","m","o","r","r","o","w">>,
                          <<"n","e","x","t"," ","m","o","n","d","a","y">>,
                          <<"m","o","n","d","a","y">>,
                          <<"m","a","y"," ","2","0">>,
                          <<"2","p","m">>,
                          <<"2","5",":","0","0">>,
                          <<"n","o","t"," ","a"," ","d","a","t","e">>,
                          <<>>}}
    \cup {NULL}

(* The due field of the parameters of an AI action: missing, null, a        *)
(* string, or a value of another type.                                      *)
NoDue == [kind |-> "absent", valuestring |-> NULL]

DueItems == {[kind |-> "string", valuestring |-> s] : s \in DateStrings \ {NULL}}
            \cup {NoDue, [kind |-> "null", valuestring |-> NULL],
                  [kind |-> "number", valuestring |-> NULL]}

----------------------------------------------------------------------------
(* The state machine: a caller makes one call at a time; the clock runs.    *)

NoInput == Str(<<>>)

NoResult == [null |-> TRUE, val |-> 0]

Init ==
    /\ clock \in ClockValues
    /\ pc = "idle"
    /\ op = "none"
    /\ input = NoInput
    /\ now = 0
    /\ now2 = 0
    /\ result = NoResult
    /\ ret = FALSE
    /\ timestamp = 0
    /\ buf = NoBuffer
    /\ before = NoResult
    /\ locals = NoLocals
    /\ trace = <<>>
    /\ returned = 0
    /\ due = NoDue

(* Time passes between two calls. *)
Tick ==
    /\ pc = "idle"
    /\ \E t \in ClockValues : t > clock /\ clock' = t
    /\ UNCHANGED <<pc, op, input, now, now2, result, ret, timestamp, buf,
                   before, locals, trace, returned, due>>

(* The call of f returns out. *)
Returns(f, in, t1, t2, out) ==
    /\ op' = f
    /\ trace' = <<f>>
    /\ input' = in
    /\ now' = t1
    /\ now2' = t2
    /\ result' = out.result
    /\ ret' = out.ret
    /\ pc' = "returned"

ParseNaturalDate(in, res, t2) ==
    /\ pc = "idle"
    /\ Returns("parse_natural_date", in, clock, t2, parse_natural_date(in, res, clock, t2))
    /\ before' = res
    /\ locals' = parse_natural_date_locals(in, res, clock, t2)
    /\ clock' = t2
    /\ UNCHANGED <<timestamp, buf, returned, due>>

ParseTimeToday(in, res) ==
    /\ pc = "idle"
    /\ Returns("parse_time_today", in, clock, clock, parse_time_today(in, res, clock))
    /\ before' = res
    /\ locals' = parse_time_today_locals(in, res, clock)
    /\ UNCHANGED <<clock, timestamp, buf, returned, due>>

(* The call format_natural_date(ts, b.chars, b.size) returns out. *)
Formats(ts, out) ==
    /\ op' = "format_natural_date"
    /\ trace' = <<"format_natural_date">>
    /\ timestamp' = ts
    /\ now' = clock
    /\ now2' = clock
    /\ buf' = out.buf
    /\ ret' = out.ret
    /\ pc' = "returned"

FormatNaturalDate(ts, b) ==
    /\ pc = "idle"
    /\ Formats(ts, format_natural_date(ts, b, clock))
    /\ UNCHANGED <<clock, input, result, before, locals, returned, due>>

(* The call f(...) that converts the string s returns out. *)
Converts(f, s, t2, out) ==
    /\ op' = f
    /\ trace' = out.trace
    /\ input' = s
    /\ now' = clock
    /\ now2' = t2
    /\ result' = out.result
    /\ ret' = out.natural
    /\ returned' = out.returned
    /\ pc' = "returned"
    /\ clock' = t2
    /\ UNCHANGED <<timestamp, buf, before, locals>>

UtilsParseDate(s, t2) ==
    /\ pc = "idle"
    /\ Converts("utils_parse_date", s, t2, utils_parse_date(s, clock, t2))
    /\ UNCHANGED due

(* handle_add_task converts the due field of its parameters. *)
HandleAddTask(d, t2) ==
    /\ pc = "idle"
    /\ Converts("handle_add_task", d.valuestring, t2,
                due_date_from_json(<<"handle_add_task", "parse_due_date_from_json">>, d, 0,
                                   clock, t2))
    /\ due' = d

(* handle_edit_task converts the due field of its parameters. *)
HandleEditTask(d, t2) ==
    /\ pc = "idle"
    /\ Converts("handle_edit_task", d.valuestring, t2,
                due_date_from_json(<<"handle_edit_task">>, d, -1, clock, t2))
    /\ due' = d

(* The caller has used the outcome and is ready for its next call. *)
Return ==
    /\ pc = "returned"
    /\ pc' = "idle"
    /\ op' = "none"
    /\ input' = NoInput
    /\ now' = 0
    /\ now2' = 0
    /\ result' = NoResult
    /\ ret' = FALSE
    /\ timestamp' = 0
    /\ buf' = NoBuffer
    /\ before' = NoResult
    /\ locals' = NoLocals
    /\ trace' = <<>>
    /\ returned' = 0
    /\ due' = NoDue
    /\ UNCHANGED clock

(* The clock reads a call can get after a first read of t. *)
LaterReads(t) == {t2 \in ClockValues : t2 >= t /\ t2 - t <= MaxCallSeconds}

Next ==
    \/ Tick
    \/ /\ pc = "idle"
       /\ \E in \in Inputs, res \in Results, t2 \in LaterReads(clock) :
              ParseNaturalDate(in, res, t2)
    \/ /\ pc = "idle"
       /\ \E in \in Inputs, res \in Results : ParseTimeToday(in, res)
    \/ /\ pc = "idle"
       /\ \E ts \in ClockValues, b \in Buffers : FormatNaturalDate(ts, b)
    \/ /\ pc = "idle"
       /\ \E s \in DateStrings, t2 \in LaterReads(clock) : UtilsParseDate(s, t2)
    \/ /\ pc = "idle"
       /\ \E d \in DueItems, t2 \in LaterReads(clock) : HandleAddTask(d, t2)
    \/ /\ pc = "idle"
       /\ \E d \in DueItems, t2 \in LaterReads(clock) : HandleEditTask(d, t2)
    \/ Return

Spec == Init /\ [][Next]_vars

----------------------------------------------------------------------------
(* Properties.                                                              *)

(* A call of f, made with a string and a result variable, has returned. *)
Called(f) == pc = "returned" /\ op = f /\ ~input.null /\ ~result.null

(* Every clock read of the call gave the same instant. *)
OneSnapshot == now2 = now

DayNumber(t) == t \div 86400

SecondOfDay(t) == t % 86400

NineOClock == 9 * 3600

(* C1: parse_natural_date("in N days") returns the instant whose date is N  *)
(* days after now's date and whose time-of-day is 09:00:00.  The code gives *)
(* 00:00:00: the day unit sets days only, and the hour and minute that      *)
(* overwrite the accumulator stay 0.                                        *)
C1_InDaysAtNine ==
    \A n \in 0..MaxN :
        (Called("parse_natural_date") /\ input.chars = InDays(n))
        => /\ ret
           /\ DayNumber(result.val) = DayNumber(now) + n
           /\ SecondOfDay(result.val) = NineOClock

(* What the code does for "in N days": the date N days ahead, at midnight. *)
C1_InDaysAtMidnight ==
    \A n \in 0..MaxN :
        (Called("parse_natural_date") /\ input.chars = InDays(n))
        => /\ ret
           /\ DayNumber(result.val) = DayNumber(now) + n
           /\ SecondOfDay(result.val) = 0

(* The struct tm of the date y-(m+1)-d (m = 0..11) at hh:mm:ss *)
TmAt(y, m, d, hh, mm, ss) ==
    [tm_year |-> y - 1900, tm_mon |-> m, tm_mday |-> d,
     tm_hour |-> hh, tm_min |-> mm, tm_sec |-> ss, tm_wday |-> 0, tm_yday |-> 0]

YearOf(t) == 1900 + localtime_r(t).tm_year

DaysInMonth(y, m) ==
    IF m = 1 THEN (IF IsLeap(y) THEN 29 ELSE 28)
    ELSE IF m \in {3, 5, 8, 10} THEN 30 ELSE 31

(* C2: for "<month> <day>", with C that month and day of now's year at      *)
(* 09:00:00, the result is C when C >= now and the same month and day at    *)
(* 09:00:00 of the next year when C < now.  Stated for the calls in which   *)
(* every clock read gave the same now.                                      *)
C2_RolloverComparesAtNine ==
    \A m \in SampleMonths, d \in SampleDays :
        (Called("parse_natural_date") /\ OneSnapshot /\ input.chars = MonthDay(m, d))
        => LET cThis == mktime(TmAt(YearOf(now), m, d, 9, 0, 0))
               cNext == mktime(TmAt(YearOf(now) + 1, m, d, 9, 0, 0))
           IN  /\ ret
               /\ result.val = IF cThis >= now THEN cThis ELSE cNext

(* What the code does: the comparison is made at now's own time-of-day and  *)
(* against the recognizer's clock read, so a typed date of today stays in   *)
(* now's year unless the clock moved between the two reads.                 *)
C2_RolloverComparesAtNowTime ==
    \A m \in SampleMonths, d \in SampleDays :
        (Called("parse_natural_date") /\ input.chars = MonthDay(m, d))
        => LET tn    == localtime_r(now)
               t     == mktime(TmAt(YearOf(now), m, d, tn.tm_hour, tn.tm_min, tn.tm_sec))
               cThis == mktime(TmAt(YearOf(now), m, d, 9, 0, 0))
               cNext == mktime(TmAt(YearOf(now) + 1, m, d, 9, 0, 0))
           IN  /\ ret
               /\ result.val = IF t >= now2 THEN cThis ELSE cNext

(* C3: when now's date is later in now's year than the typed month and day, *)
(* the result is that month and day of the following year at 09:00:00.      *)
(* Stated for the month/day pairs that are dates of both years.             *)
C3_PastDateNextYear ==
    \A m \in SampleMonths, d \in SampleDays :
        LET tn == localtime_r(now)
            y  == YearOf(now)
            r  == localtime_r(result.val)
        IN  (/\ Called("parse_natural_date")
             /\ input.chars = MonthDay(m, d)
             /\ d <= DaysInMonth(y, m) /\ d <= DaysInMonth(y + 1, m)
             /\ (m < tn.tm_mon \/ (m = tn.tm_mon /\ d < tn.tm_mday)))
            => /\ ret
               /\ r.tm_year = tn.tm_year + 1 /\ r.tm_mon = m /\ r.tm_mday = d
               /\ r.tm_hour = 9 /\ r.tm_min = 0 /\ r.tm_sec = 0

C3_Witness ==
    /\ Called("parse_natural_date")
    /\ input.chars = MonthDay(4, 20)
    /\ localtime_r(now).tm_mon = 4 /\ localtime_r(now).tm_mday = 21
    /\ ret
    /\ localtime_r(result.val).tm_year = localtime_r(now).tm_year + 1

WeekdayOf(t) == localtime_r(t).tm_wday

HourOf(t) == localtime_r(t).tm_hour

MinuteOf(t) == localtime_r(t).tm_min

AmPmWords == {<<"a","m">>, <<"p","m">>, <<"P","M">>}

IsPm(x) == toupper(x[1]) = "P"

(* C5: with a meridiem, hour 12 is 0 (am) or 12 (pm); otherwise pm adds 12  *)
(* only to a typed hour below 12, so a typed hour of 13..23 followed by pm  *)
(* keeps its value and the parse succeeds; am leaves the hour unchanged.    *)
C5_PmKeepsHourAbove12 ==
    \A h \in SampleHours \cap 0..23, x \in AmPmWords :
        (Called("parse_time_today") /\ input.chars = Time(NumStr(h), <<>>, x))
        => /\ ret
           /\ HourOf(result.val) = IF h = 12 THEN (IF IsPm(x) THEN 12 ELSE 0)
                                   ELSE IF IsPm(x) /\ h < 12 THEN h + 12
                                   ELSE h

(* C5 as amended: with a meridiem, hour 12 is 0 (am) or 12 (pm); otherwise  *)
(* pm adds 12 to the typed hour whatever it is, so a typed hour of 13..23   *)
(* followed by pm resolves to 25..35 and the parse fails; am leaves the     *)
(* hour unchanged.                                                          *)
C5_PmAlwaysAdds12 ==
    \A h \in SampleHours, m \in {<<>>, ColonMinute(30)}, x \in AmPmWords :
        (Called("parse_time_today") /\ input.chars = Time(NumStr(h), m, x))
        => LET resolved == IF h = 12 THEN (IF IsPm(x) THEN 12 ELSE 0)
                           ELSE IF IsPm(x) THEN h + 12
                           ELSE h
           IN  IF resolved <= 23
               THEN ret /\ HourOf(result.val) = resolved
               ELSE ~ret

C5_Witness ==
    /\ Called("parse_time_today")
    /\ input.chars = Time(NumStr(14), <<>>, <<"p","m">>)
    /\ ~ret

(* C6: without a meridiem a typed hour H in 0..11 is read as PM:            *)
(* "H:MM" gives hour H + 12 and minute MM, as "H:MMpm" does for H in 1..11; *)
(* a typed hour of 12..23 is kept.                                          *)
C6_BareHourIsPm ==
    \A h \in SampleHours \cap 0..23, m \in SampleMinutes \cap 0..59 :
        /\ (Called("parse_time_today") /\ input.chars = Time(NumStr(h), ColonMinute(m), <<>>))
           => /\ ret
              /\ HourOf(result.val) = IF h < 12 THEN h + 12 ELSE h
              /\ MinuteOf(result.val) = m
        /\ (/\ Called("parse_time_today") /\ h \in 1..11
            /\ input.chars = Time(NumStr(h), ColonMinute(m), <<"p","m">>))
           => /\ ret
              /\ HourOf(result.val) = h + 12
              /\ MinuteOf(result.val) = m

C6_Witness ==
    /\ Called("parse_time_today")
    /\ input.chars = Time(NumStr(2), ColonMinute(30), <<>>)
    /\ ret
    /\ HourOf(result.val) = 14 /\ MinuteOf(result.val) = 30

(* C7: a well-formed time followed by characters that are no am/pm marker   *)
(* ("12:00xx") is rejected by parse_time_today.  The code stops reading at  *)
(* the first character that is neither a nor p and accepts the time.        *)
C7_TrailingGarbageRejected ==
    \A h \in SampleHours, m \in MinuteWords :
        (Called("parse_time_today") /\ input.chars = Time(NumStr(h), m, <<"x","x">>))
        => ~ret

MinuteNumerals ==
    {<<"0","0">>, <<"3","0">>, <<"6","0">>, <<"7","0">>,
     <<"4","2","9","4","9","6","7","2","9","6">>}

(* C8: the parse fails whenever the resolved hour is outside 0..23 or the   *)
(* typed minute is outside 0..59, and a successful parse has the typed hour *)
(* (after the am/pm rule) and the typed minute.  The code converts the      *)
(* minute to int before the range check, so 4294967296 is taken as 0.       *)
C8_OutOfRangeRejected ==
    \A h \in SampleHours, mm \in MinuteNumerals :
        (Called("parse_time_today") /\ input.chars = NumStr(h) \o <<":">> \o mm)
        => LET minuteOk == NumeralLess(StripZeros(mm), <<"6","0">>)
               resolved == IF h < 12 THEN h + 12 ELSE h
           IN  /\ ret = (resolved <= 23 /\ minuteOk)
               /\ ret => /\ HourOf(result.val) = resolved
                         /\ MinuteOf(result.val) = SmallVal(mm, 0)

(* C9: both entry points return failure for a NULL input, for the empty     *)
(* string and for a NULL result pointer; parse_natural_date also fails for  *)
(* "not a date".                                                            *)
C9_NullAndEmptyFail ==
    /\ (/\ pc = "returned" /\ op \in {"parse_natural_date", "parse_time_today"}
        /\ (input.null \/ result.null \/ input.chars = <<>>)) => ~ret
    /\ (/\ pc = "returned" /\ op = "parse_natural_date"
        /\ input.chars = <<"n","o","t"," ","a"," ","d","a","t","e">>) => ~ret

(* parse_time_today("14:30", NULL) *)
C9_Witness ==
    /\ pc = "returned" /\ op = "parse_time_today"
    /\ input.chars = Time(NumStr(14), ColonMinute(30), <<>>)
    /\ result.null
    /\ ~ret

BeginsRelative(s) ==
    LET p == skip_whitespace(s, 1)
    IN  starts_with(s, p, <<"i","n"," ">>) \/ starts_with(s, p, <<"n","e","x","t"," ">>)

(* C10: an input that begins, after optional white space, with "in " or     *)
(* "next " and that the relative recognizer rejects makes the whole call    *)
(* fail: the absolute-date and time-of-day recognizers, which the code does *)
(* try next, never accept it.                                               *)
C10_NoSuccessAfterRelativePrefix ==
    (/\ Called("parse_natural_date")
     /\ BeginsRelative(input.chars)
     /\ ~parse_relative_date(input, 0, 0, 0, now2).ok)
    => ~ret

(* "in monday": the in prefix matches, no integer follows *)
C10_Witness ==
    /\ Called("parse_natural_date")
    /\ input.chars = <<"i","n"," ","m","o","n","d","a","y">>
    /\ ~parse_relative_date(input, 0, 0, 0, now2).ok
    /\ ~ret

(* The hour a typed hour h stands for with the marker x (none, am or pm) *)
ResolvedHour(h, x) ==
    IF x = <<>> THEN (IF h < 12 THEN h + 12 ELSE h)
    ELSE IF h = 12 THEN (IF IsPm(x) THEN 12 ELSE 0)
    ELSE IF IsPm(x) THEN h + 12
    ELSE h

(* The minute typed as m: nothing, or a colon and two digits *)
TypedMinute(m) == IF m = <<>> THEN 0 ELSE SmallVal(Tail(m), 0)

(* hh:mm:00 on the date of the instant t *)
OnDateOf(t, hh, mm) == DayNumber(t) * 86400 + hh * 3600 + mm * 60

MarkerWords == {<<>>} \cup AmPmWords

(* C11: parse_time_today puts the parsed time on now's date; the result is  *)
(* that instant plus exactly one day (86400 seconds) when the instant is    *)
(* strictly before now, and that instant itself when it is now or later.    *)
C11_RollIffStrictlyBeforeNow ==
    \A h \in SampleHours, m \in MinuteWords, x \in MarkerWords :
        (/\ Called("parse_time_today")
         /\ input.chars = Time(NumStr(h), m, x)
         /\ ResolvedHour(h, x) <= 23 /\ TypedMinute(m) <= 59)
        => LET today == OnDateOf(now, ResolvedHour(h, x), TypedMinute(m))
           IN  /\ ret
               /\ result.val = IF today < now THEN today + 86400 ELSE today

(* "9am" asked at 15:30:00: tomorrow at 09:00:00 *)
C11_Witness ==
    /\ Called("parse_time_today")
    /\ input.chars = Time(NumStr(9), <<>>, <<"a","m">>)
    /\ SecondOfDay(now) = 15 * 3600 + 30 * 60
    /\ ret
    /\ result.val = OnDateOf(now, 9, 0) + 86400

(* C12: when parse_natural_date is given only a time, the result is that    *)
(* time on now's date, also when this is earlier than now: it is never      *)
(* moved to the next day.                                                   *)
C12_TimeOnlyNeverRolled ==
    \A h \in SampleHours, m \in MinuteWords, x \in MarkerWords :
        (/\ Called("parse_natural_date")
         /\ input.chars = Time(NumStr(h), m, x)
         /\ ResolvedHour(h, x) <= 23 /\ TypedMinute(m) <= 59)
        => /\ ret
           /\ result.val = OnDateOf(now, ResolvedHour(h, x), TypedMinute(m))

(* "9am" asked at 15:30:00: today at 09:00:00, which is before now *)
C12_Witness ==
    /\ Called("parse_natural_date")
    /\ input.chars = Time(NumStr(9), <<>>, <<"a","m">>)
    /\ SecondOfDay(now) = 15 * 3600 + 30 * 60
    /\ ret
    /\ result.val = OnDateOf(now, 9, 0)
    /\ result.val < now

DateThenTime == {<<"D","e","c"," ","2","5"," ","2","p","m">>,
                 <<"t","o","m","o","r","r","o","w"," ","2","p","m">>}

(* C13: for a date followed by a time-of-day ("Dec 25 2pm", "tomorrow       *)
(* 2pm") parse_natural_date succeeds and the result has the typed time,     *)
(* 14:00, not the 09:00 default.  The code returns as soon as the date is   *)
(* recognized and never reads the time: the result is at 09:00.             *)
C13_DateThenTimeKeepsTime ==
    \A s \in DateThenTime :
        (Called("parse_natural_date") /\ input.chars = s)
        => /\ ret
           /\ HourOf(result.val) = 14 /\ MinuteOf(result.val) = 0

InHours(n) == In(NumStr(n), <<" ">>, <<"h","o","u","r","s">>)

InMinutes(n) == In(NumStr(n), <<" ">>, <<"m","i","n","u","t","e","s">>)

(* C14: "in N hours" gives the instant N hours after now and "in N          *)
(* minutes" the instant N minutes after now.  The code overwrites the hour  *)
(* and the minute of now with the recognizer's values instead of adding.    *)
C14_OffsetsAddedToNow ==
    \A n \in 0..MaxN :
        /\ (Called("parse_natural_date") /\ input.chars = InHours(n))
           => (ret /\ result.val = now + n * 3600)
        /\ (Called("parse_natural_date") /\ input.chars = InMinutes(n))
           => (ret /\ result.val = now + n * 60)

BeginsTomorrow(s) ==
    \A k \in 1..8 :
        tolower(CharAt(s, skip_whitespace(s, 1) + k - 1))
            = <<"t","o","m","o","r","r","o","w">>[k]

C17_BareWeekdayNextOccurrence ==
    \A w \in 0..6 :
        (Called("parse_natural_date") /\ input.chars = days[w + 1])
        => LET ahead == DayNumber(result.val) - DayNumber(now)
               d     == (w - WeekdayOf(now) + 7) % 7
           IN  /\ ret
               /\ ahead = IF d = 0 THEN 7 ELSE d
               /\ ahead \in 1..7
               /\ WeekdayOf(result.val) = w
               /\ SecondOfDay(result.val) = NineOClock

(* C18: a call reads the clock once, at its start, and every decision uses  *)
(* that snapshot: the outcome is the one the call has when every clock read *)
(* in it gives now, however the clock moves during the call.  The code      *)
(* reads the clock again inside the recognizers (lines 160, 197 and 216).   *)
C18_OutcomeFromOneSnapshot ==
    (Called("parse_natural_date") /\ ret)
    => result.val = parse_natural_date(input, [null |-> FALSE, val |-> 0], now, now).result.val

(* format_natural_date has returned the text it wrote into a buffer that    *)
(* holds all of it. *)
Formatted ==
    pc = "returned" /\ op = "format_natural_date" /\ ret /\ buf.size = 64

(* C19: with days_diff = (the instant's day of year - now's day of year +   *)
(* 365) mod 365, the text is "Today at" for 0, "Tomorrow at" for 1, the     *)
(* weekday name for 2..6 and the short month and day otherwise, followed by *)
(* the instant's 12-hour time; for the instant now it is "Today at" with    *)
(* now's own time.                                                          *)
C19_LabelFromDayOfYearDifference ==
    Formatted
    => LET tm   == localtime_r(timestamp)
           diff == (tm.tm_yday - localtime_r(now).tm_yday + 365) % 365
       IN  /\ buf.chars = (IF diff = 0 THEN Today_at
                           ELSE IF diff = 1 THEN Tomorrow_at
                           ELSE IF diff \in 2..6 THEN strftime_A(tm) \o label_at
                           ELSE strftime_b_d(tm) \o label_at)
                          \o strftime_I_M_p(tm)
           /\ timestamp = now
              => buf.chars = Today_at \o strftime_I_M_p(localtime_r(now))

(* format_natural_date(now) at 15:30:00: "Today at 03:30 PM" *)
C19_Witness ==
    /\ Formatted
    /\ timestamp = now
    /\ SecondOfDay(now) = 15 * 3600 + 30 * 60
    /\ buf.chars = <<"T","o","d","a","y"," ","a","t"," ","0","3",":","3","0"," ","P","M">>

(* The text s begins with the text pre. *)
BeginsWith(s, pre) == Len(s) >= Len(pre) /\ SubSeq(s, 1, Len(pre)) = pre

(* C20: every text written by format_natural_date is rejected by            *)
(* parse_natural_date and by parse_time_today.                              *)
C20_NoLabelParses ==
    (/\ Called("parse_natural_date") \/ Called("parse_time_today")
     /\ input.chars \in FormatLabels)
    => ~ret

(* C20 as amended: parse_time_today rejects every text written by           *)
(* format_natural_date; parse_natural_date rejects the "Today at ..." texts *)
(* and accepts all others ("Tomorrow at ...", "<Weekday> at ...", "<Mon DD> *)
(* at ..."), reading the date word only: the result is at 09:00:00 whatever *)
(* time the text shows.                                                     *)
C20_OnlyTodayLabelRejected ==
    /\ (Called("parse_time_today") /\ input.chars \in FormatLabels) => ~ret
    /\ (Called("parse_natural_date") /\ input.chars \in FormatLabels)
       => /\ ret = ~BeginsWith(input.chars, Today_at)
          /\ ret => SecondOfDay(result.val) = NineOClock

(* "Tomorrow at 03:30 PM" is read as tomorrow, at 09:00:00 *)
C20_Witness ==
    /\ Called("parse_natural_date")
    /\ input.chars = Tomorrow_at \o <<"0","3",":","3","0"," ","P","M">>
    /\ input.chars \in FormatLabels
    /\ ret
    /\ result.val = OnDateOf(now, 9, 0) + 86400

(* C21: every instant returned by a successful parse_natural_date or        *)
(* parse_time_today has an hour in 0..23, a minute in 0..59 and second 0.   *)
C21_WholeMinuteInstants ==
    ((Called("parse_natural_date") \/ Called("parse_time_today")) /\ ret)
    => LET r == localtime_r(result.val)
       IN  /\ r.tm_hour \in 0..23
           /\ r.tm_min \in 0..59
           /\ r.tm_sec = 0

(* "2pm" asked at 08:59:59: 14:00:00 *)
C21_Witness ==
    /\ Called("parse_natural_date")
    /\ input.chars = Time(NumStr(2), <<>>, <<"p","m">>)
    /\ SecondOfDay(now) = 8 * 3600 + 59 * 60 + 59
    /\ ret
    /\ SecondOfDay(result.val) = 14 * 3600

----------------------------------------------------------------------------
(* The conversions of utils.c and ai_chat_actions.c *)

AIHandlers == {"handle_add_task", "handle_edit_task"}

Calls(f) == \E i \in 1..Len(trace) : trace[i] = f

(* A handler that was given a due string (not the empty string) *)
DueString == pc = "returned" /\ op \in AIHandlers /\ due.kind = "string" /\ input.chars # <<>>

MidnightUTC(d) == At(d, <<0, 0, 0>>)

WrittenAs(d) == {IsoDate(d), UsDate(d), EuDate(d), NameDate(d), DayNameDate(d)}

(* C23: utils_parse_date returns midnight UTC of the written date for every *)
(* input in one of its formats (YYYY-MM-DD, MM/DD/YYYY, DD/MM/YYYY,         *)
(* "Mon DD, YYYY", "DD Mon YYYY"); parse_natural_date, tried first, never   *)
(* accepts such an input.  The code lets parse_natural_date accept          *)
(* "12/25/2025" (12 is read as the hour) and "May 20, 2025" (the year is    *)
(* dropped).                                                                *)
C23_WrittenDateAtMidnightUTC ==
    (pc = "returned" /\ op = "utils_parse_date") =>
        \A d \in WrittenDates :
            input.chars \in WrittenAs(d) => ~ret /\ returned = MidnightUTC(d)

----------------------------------------------------------------------------
(* C24: the month+day pattern accepts a day number exactly when it is in    *)
(* 1..31, whatever the month: "feb 31" succeeds and mktime carries the days *)
(* beyond the end of the month into the following month, at 09:00:00 of     *)
(* now's year or the next; a month name followed by a day outside 1..31, or *)
(* by no digit at all, makes parse_natural_date fail.                       *)
C24_DayBetween1And31 ==
    /\ \A m \in SampleMonths, d \in SampleDays \cup BoundaryDays :
          (Called("parse_natural_date") /\ input.chars = MonthDay(m, d))
          => LET r == localtime_r(result.val)
                 y == 1900 + r.tm_year
             IN  /\ ret = (1 <= d /\ d <= 31)
                 /\ ret => /\ result.val \in {mktime(TmAt(yy, m, d, 9, 0, 0)) :
                                                 yy \in {YearOf(now), YearOf(now) + 1}}
                           /\ d <= DaysInMonth(y, m) => r.tm_mon = m /\ r.tm_mday = d
                           /\ d > DaysInMonth(y, m) =>
                                 /\ r.tm_mon = m + 1
                                 /\ r.tm_mday = d - DaysInMonth(y, m)
    /\ (Called("parse_natural_date") /\ input.chars \in MonthWords) => ~ret

C24_Witness ==
    /\ Called("parse_natural_date")
    /\ input.chars = MonthDay(1, 31)
    /\ ret
    /\ localtime_r(result.val).tm_mon = 2
    /\ localtime_r(result.val).tm_mday = 3
    /\ SecondOfDay(result.val) = NineOClock

----------------------------------------------------------------------------
(* The three offsets of parse_natural_date when it returned *)
Offsets == <<locals.days_offset, locals.hours_offset, locals.minutes_offset>>

(* The offsets "in n <unit>" stands for: n in the variable named by the     *)
(* first letter of the unit, 0 in the other two.                            *)
UnitOffsets(unit, n) ==
    IF unit[1] = "d" THEN <<n, 0, 0>>
    ELSE IF unit[1] = "h" THEN <<0, n, 0>>
    ELSE <<0, 0, n>>

NoUnitInputs == {<<"i","n"," ","3"," ","w","e","e","k","s">>,
                 <<"i","n"," ","3">>,
                 <<"i","n"," ","5","p","m">>,
                 <<"i","n"," ","2",":","3","0">>,
                 <<"i","n"," ">>,
                 <<"i","n"," ","x","y","z"," ","d","a","y","s">>,
                 <<"i","n"," ","m","o","n","d","a","y">>,
                 <<"i","n"," ","m","a","y"," ","2","0">>}

----------------------------------------------------------------------------
(* C26: a recognizer that fails leaves the accumulator unchanged: when the  *)
(* relative, absolute and time-of-day recognizers have all returned failure *)
(* (in parse_time_today: the time-of-day recognizer), every field of the    *)
(* struct tm and every offset variable they were given has the value it had *)
(* before the call, that is now's broken-down time and 0.  In the code      *)
(* parse_time stores the minute before it checks the ranges.                *)
C26_FailureLeavesAccumulator ==
    (/\ Called("parse_natural_date") \/ Called("parse_time_today")
     /\ ~ret)
    => /\ locals.tm = localtime_r(now)
       /\ Offsets = <<0, 0, 0>>

----------------------------------------------------------------------------
(* C27: when parse_natural_date or parse_time_today returns failure, the    *)
(* caller's *result is exactly what it was before the call; so the local    *)
(* variable result of utils_parse_date is still 0 when the natural parser   *)
(* has rejected its string.                                                 *)
C27_FailureLeavesResult ==
    /\ (pc = "returned" /\ op \in {"parse_natural_date", "parse_time_today"} /\ ~ret)
          => result = before
    /\ (pc = "returned" /\ op \in AIHandlers \cup {"utils_parse_date"}
                        /\ Calls("parse_natural_date") /\ ~ret)
          => result = [null |-> FALSE, val |-> 0]

C27_Witness ==
    /\ Called("parse_natural_date")
    /\ input.chars = <<"2","5",":","0","0">>
    /\ ~ret
    /\ before.val = -1
    /\ result.val = -1

----------------------------------------------------------------------------
(* C28: every successful parse_time_today result R satisfies                *)
(* now <= R < now + 24 hours, for every accepted input and every now: the   *)
(* result is never in the past and never more than a day ahead.             *)
C28_WithinTheNextDay ==
    (Called("parse_time_today") /\ ret)
    => /\ now <= result.val
       /\ result.val < now + 24 * 60 * 60

(* The typed time is now itself: the result is now, not a day later *)
C28_Witness ==
    /\ Called("parse_time_today")
    /\ input.chars = <<"9","a","m">>
    /\ SecondOfDay(now) = NineOClock
    /\ ret
    /\ result.val = now

----------------------------------------------------------------------------
(* What parse_natural_date gives for the text s with the clock reads of the *)
(* call in the state                                                        *)
SameNow(s) == parse_natural_date(Str(s), [null |-> FALSE, val |-> 0], now, now2)

WeekdayWords == {days[w + 1] : w \in 0..6} \cup {<<"m","o","n">>}

(* C29: for every weekday name W and the same now, parse_natural_date("W")  *)
(* and parse_natural_date("next W") return the same instant: the bare       *)
(* weekday branch of the absolute recognizer and the "next" branch of the   *)
(* relative recognizer agree.                                               *)
C29_BareAndNextWeekdayAgree ==
    \A w \in WeekdayWords :
        /\ (Called("parse_natural_date") /\ input.chars = w)
              => /\ ret /\ SameNow(NextDay(w)).ret
                 /\ result.val = SameNow(NextDay(w)).result.val
        /\ (Called("parse_natural_date") /\ input.chars = NextDay(w))
              => /\ ret /\ SameNow(w).ret
                 /\ result.val = SameNow(w).result.val

(* Asked on a Tuesday, "tuesday" is a week ahead, as "next tuesday" is *)
C29_Witness ==
    /\ Called("parse_natural_date")
    /\ input.chars = days[3]
    /\ WeekdayOf(now) = 2
    /\ ret
    /\ DayNumber(result.val) = DayNumber(now) + 7
    /\ result.val = SameNow(NextDay(days[3])).result.val

----------------------------------------------------------------------------
(* C30: leading white space does not change the outcome of                  *)
(* parse_natural_date: for the same now, an input that starts with a space  *)
(* has the success or failure and the instant of the input without that     *)
(* space, for relative (" tomorrow"), absolute (" may 20", " monday") and   *)
(* time-only (" 2pm") inputs alike.  In the code parse_absolute_date does   *)
(* not skip white space.                                                    *)
C30_LeadingSpaceIgnored ==
    (/\ Called("parse_natural_date")
     /\ input.chars # <<>>
     /\ input.chars[1] = " ")
    => /\ ret = SameNow(Tail(input.chars)).ret
       /\ ret => result.val = SameNow(Tail(input.chars)).result.val

====
